---- MODULE Spec2Model ----
(***************************************************************************)
(* Model of the credential and capability negotiation layer of             *)
(* slack-mcp-server: the ScopeDetector of package provider (probe          *)
(* goroutines, the detected map, its RWMutex, the history inference and    *)
(* the query methods), the probe's error classifier, the resolution of    *)
(* the credential mode, the directory snapshot and its refresh, the       *)
(* gating of operations, and MessagesWithAttachmentsHandler of package    *)
(* handler.                                                                *)
(***************************************************************************)
EXTENDS Integers, Sequences, FiniteSets, TLC

VARIABLES
    detected,       \* sd.detected: a Go map, here a function on the keys present
    mutexWriter,    \* sd.detectedMutex: who holds the write lock, or "none"
    mutexReaders,   \* sd.detectedMutex: number of read locks held
    dpc,            \* where the caller of DetectScopes is
    wg,             \* the sync.WaitGroup counter of the running round
    rounds,         \* DetectScopes calls started so far
    cancelled,      \* whether ctx of the last DetectScopes call is done
    cancelledAll,   \* history: ctx was cancelled with all six probes outstanding
    ppc,            \* per probed scope: where its goroutine is
    available,      \* per probed scope: the goroutine's local `available`
    rpc,            \* where the querying goroutine is
    perr,           \* a probe on its own: the error its client call returned
    pres,           \* a probe on its own: its verdict, once it has one
    csrc,           \* credential resolution: the values as presented
    cres,           \* credential resolution: its result, once it has one
    remote,         \* how many channels of the workspace the remote service lists
    snapshot,       \* the published directory snapshot (ProvideChannelsMaps)
    refresh,        \* the directory refresh in flight, if any
    fetchSeqs,      \* page-fetch sequences started so far
    hpc,            \* per caller: where its MessagesWithAttachmentsHandler call is
    hreq,           \* per caller: the request of its call
    hchannelID,     \* per caller: the handler's local channelID
    hlog,           \* per caller: the calls the handler has made to its provider
    hseen,          \* per caller: the snapshot ProvideChannelsMaps handed it
    hout,           \* per caller: what the handler returned
    gin,            \* operation gating: the capability set and credential kind
    gout            \* operation gating: the advertised operations

detVars == <<detected, mutexWriter, mutexReaders, dpc, wg, rounds, cancelled,
             cancelledAll, ppc, available, rpc>>
probeVars == <<perr, pres>>
credVars == <<csrc, cres>>
dirVars == <<remote, snapshot, refresh, fetchSeqs>>
hVars == <<hpc, hreq, hchannelID, hlog, hseen, hout>>
gateVars == <<gin, gout>>
restVars == <<dirVars, hVars, gateVars>>
vars == <<detected, mutexWriter, mutexReaders, dpc, wg, rounds, cancelled,
          cancelledAll, ppc, available, rpc, perr, pres, csrc, cres,
          remote, snapshot, refresh, fetchSeqs,
          hpc, hreq, hchannelID, hlog, hseen, hout, gin, gout>>

-----------------------------------------------------------------------------
(* Bounds *)

\* DetectScopes calls made on a detector at startup
StartupRounds == 1
\* DetectScopes calls made on a detector that is asked to detect again
MaxRounds == 2
\* tokens in the text of an error handed to the classifier
MaxErrLen == 2

-----------------------------------------------------------------------------
(* Scopes *)

ScopeChannelsRead    == "channels:read"
ScopeChannelsHistory == "channels:history"
ScopeGroupsRead      == "groups:read"
ScopeGroupsHistory   == "groups:history"
ScopeIMRead          == "im:read"
ScopeIMHistory       == "im:history"
ScopeIMWrite         == "im:write"
ScopeMPIMRead        == "mpim:read"
ScopeMPIMHistory     == "mpim:history"
ScopeMPIMWrite       == "mpim:write"
ScopeUsersRead       == "users:read"
ScopeChatWrite       == "chat:write"
ScopeSearchRead      == "search:read"

Scope == {ScopeChannelsRead, ScopeChannelsHistory, ScopeGroupsRead,
          ScopeGroupsHistory, ScopeIMRead, ScopeIMHistory, ScopeIMWrite,
          ScopeMPIMRead, ScopeMPIMHistory, ScopeMPIMWrite, ScopeUsersRead,
          ScopeChatWrite, ScopeSearchRead}

\* the scopes of the scopeTests table, in its order
scopeTests == <<ScopeChannelsRead, ScopeGroupsRead, ScopeIMRead,
                ScopeMPIMRead, ScopeUsersRead, ScopeSearchRead>>

Probed == {scopeTests[i] : i \in 1..Len(scopeTests)}

-----------------------------------------------------------------------------
(* Errors of the Slack client and their classification *)

\* An error value: nil, or an error whose Error() text is a sequence of tokens.
NilErr == [isNil |-> TRUE, text |-> <<>>]

ErrorOf(t) == [isNil |-> FALSE, text |-> t]

\* strings.Contains(errStr, tok) on a tokenised text
Contains(errStr, tok) == \E i \in 1..Len(errStr) : errStr[i] = tok

\* a classifier that takes every error for a permission denial
isMissingScopeErrorAnyError(err) == ~err.isNil

isMissingScopeError(err) ==
    IF err.isNil
    THEN FALSE
    ELSE \/ Contains(err.text, "missing_scope")
         \/ Contains(err.text, "not_allowed")
         \/ Contains(err.text, "access_denied")

\* what a client call hands back when its context is done
ErrCanceled == ErrorOf(<<"context canceled">>)

\* a test function that takes a cancelled call for a scope that is missing
testFuncCancelAware(err) == err # ErrCanceled /\ ~isMissingScopeError(err)

\* testChannelsRead .. testSearchRead: one client call, then the verdict
testFunc(err) == ~isMissingScopeError(err)

\* what a client call can hand back otherwise
ClientOutcomes ==
    {NilErr, ErrorOf(<<"missing_scope">>), ErrorOf(<<"not_allowed">>),
     ErrorOf(<<"access_denied">>), ErrorOf(<<"ratelimited">>),
     ErrorOf(<<"connection refused">>)}

CallOutcomes(ctxDone) == IF ctxDone THEN {ErrCanceled} ELSE ClientOutcomes

-----------------------------------------------------------------------------
(* ScopeDetector: the map and its queries *)

\* sd.detected[scope]: the zero value for a key that is absent
HasScopeIn(d, scope) == scope \in DOMAIN d /\ d[scope]

\* sd.detected[scope] = v
MapSet(d, scope, v) ==
    [s \in (DOMAIN d) \cup {scope} |-> IF s = scope THEN v ELSE d[s]]

HasScope(scope) == HasScopeIn(detected, scope)

HasAnyReadScope ==
    \/ HasScope(ScopeChannelsRead)
    \/ HasScope(ScopeGroupsRead)
    \/ HasScope(ScopeIMRead)
    \/ HasScope(ScopeMPIMRead)

HasAnyHistoryScope ==
    \/ HasScope(ScopeChannelsHistory)
    \/ HasScope(ScopeGroupsHistory)
    \/ HasScope(ScopeIMHistory)
    \/ HasScope(ScopeMPIMHistory)

AppendIf(types, cond, t) == IF cond THEN Append(types, t) ELSE types

AvailableChannelTypes ==
    LET t0 == <<>>
        t1 == AppendIf(t0, HasScope(ScopeChannelsRead), "public_channel")
        t2 == AppendIf(t1, HasScope(ScopeGroupsRead), "private_channel")
        t3 == AppendIf(t2, HasScope(ScopeIMRead), "im")
        t4 == AppendIf(t3, HasScope(ScopeMPIMRead), "mpim")
    IN t4

\* an inference that also takes the write scope of a type from its read scope
InferHistoryWithWrite(d) ==
    IF HasScopeIn(d, ScopeIMRead)
    THEN MapSet(MapSet(d, ScopeIMHistory, TRUE), ScopeIMWrite, TRUE)
    ELSE d

\* inferHistoryScopes, the body under the lock
InferHistory(d) ==
    LET d1 == IF HasScopeIn(d, ScopeChannelsRead)
              THEN MapSet(d, ScopeChannelsHistory, TRUE) ELSE d
        d2 == IF HasScopeIn(d1, ScopeGroupsRead)
              THEN MapSet(d1, ScopeGroupsHistory, TRUE) ELSE d1
        d3 == IF HasScopeIn(d2, ScopeIMRead)
              THEN MapSet(d2, ScopeIMHistory, TRUE) ELSE d2
        d4 == IF HasScopeIn(d3, ScopeMPIMRead)
              THEN MapSet(d3, ScopeMPIMHistory, TRUE) ELSE d3
    IN d4

-----------------------------------------------------------------------------
(* sync.RWMutex *)

\* a write lock that is handed out while another holder has it
CanLockAlways == TRUE

\* Lock() can return: no writer and no reader holds the mutex
CanLock == mutexWriter = "none" /\ mutexReaders = 0

\* a read lock that does not wait for the writer
CanRLockAlways == TRUE

\* RLock() can return: no writer holds the mutex
CanRLock == mutexWriter = "none"

-----------------------------------------------------------------------------
(* ScopeDetector: construction and DetectScopes *)

\* NewScopeDetector
DetInit ==
    /\ detected = << >>
    /\ mutexWriter = "none"
    /\ mutexReaders = 0
    /\ dpc = "idle"
    /\ wg = 0
    /\ rounds = 0
    /\ cancelled = FALSE
    /\ cancelledAll = FALSE
    /\ ppc = [p \in Probed |-> "none"]
    /\ available = [p \in Probed |-> FALSE]
    /\ rpc = "idle"

\* DetectScopes is called with a context; the loop over scopeTests adds each
\* goroutine to the wait group and starts it.
DetectScopes(maxRounds) ==
    /\ dpc = "idle"
    /\ rounds < maxRounds
    /\ rounds' = rounds + 1
    /\ cancelled' = FALSE
    /\ cancelledAll' = FALSE
    /\ wg' = Len(scopeTests)
    /\ ppc' = [p \in Probed |-> "test"]
    /\ available' = [p \in Probed |-> FALSE]
    /\ dpc' = "wait"
    /\ UNCHANGED <<detected, mutexWriter, mutexReaders, rpc>>
    /\ UNCHANGED <<probeVars, credVars, restVars>>

\* the caller of DetectScopes cancels the context
Cancel ==
    /\ dpc # "idle"
    /\ ~cancelled
    /\ cancelled' = TRUE
    /\ cancelledAll' = \A p \in Probed : ppc[p] = "test"
    /\ UNCHANGED <<detected, mutexWriter, mutexReaders, dpc, wg, rounds,
                   ppc, available, rpc>>
    /\ UNCHANGED <<probeVars, credVars, restVars>>

\* goroutine of scope p: available := testFunc(ctx)
ProbeTest(p) ==
    /\ ppc[p] = "test"
    /\ \E verdict \in {testFunc(err) : err \in CallOutcomes(cancelled)} :
           available' = [available EXCEPT ![p] = verdict]
    /\ ppc' = [ppc EXCEPT ![p] = "setScope"]
    /\ UNCHANGED <<detected, mutexWriter, mutexReaders, dpc, wg, rounds,
                   cancelled, cancelledAll, rpc>>
    /\ UNCHANGED <<probeVars, credVars, restVars>>

\* setScope: sd.detectedMutex.Lock()
SetScopeLock(p) ==
    /\ ppc[p] = "setScope"
    /\ CanLock
    /\ mutexWriter' = p
    /\ ppc' = [ppc EXCEPT ![p] = "locked"]
    /\ UNCHANGED <<detected, mutexReaders, dpc, wg, rounds, cancelled,
                   cancelledAll, available, rpc>>
    /\ UNCHANGED <<probeVars, credVars, restVars>>

\* a goroutine that never calls wg.Done()
WgDoneMissing(n) == n

\* the deferred wg.Done()
WgDone(n) == n - 1

\* a goroutine that captures the loop variable: every write goes to the key
\* of the last entry of scopeTests
SetScopeKeyCaptured(p) == scopeTests[Len(scopeTests)]

\* the key setScope writes for the goroutine of scope p
SetScopeKey(p) == p

\* setScope: sd.detected[scope] = available, the deferred Unlock, the log
\* line and the deferred wg.Done()
SetScopeWrite(p) ==
    /\ ppc[p] = "locked"
    /\ detected' = MapSet(detected, SetScopeKey(p), available[p])
    /\ mutexWriter' = "none"
    /\ wg' = WgDone(wg)
    /\ ppc' = [ppc EXCEPT ![p] = "done"]
    /\ UNCHANGED <<mutexReaders, dpc, rounds, cancelled, cancelledAll,
                   available, rpc>>
    /\ UNCHANGED <<probeVars, credVars, restVars>>

\* a DetectScopes that does not wait for its goroutines
JoinReadyNoWait == TRUE

\* wg.Wait() returns
JoinReady == wg = 0

Join ==
    /\ dpc = "wait"
    /\ JoinReady
    /\ dpc' = "infer"
    /\ UNCHANGED <<detected, mutexWriter, mutexReaders, wg, rounds,
                   cancelled, cancelledAll, ppc, available, rpc>>
    /\ UNCHANGED <<probeVars, credVars, restVars>>

\* inferHistoryScopes: sd.detectedMutex.Lock()
InferLock ==
    /\ dpc = "infer"
    /\ CanLock
    /\ mutexWriter' = "infer"
    /\ dpc' = "inferLocked"
    /\ UNCHANGED <<detected, mutexReaders, wg, rounds, cancelled,
                   cancelledAll, ppc, available, rpc>>
    /\ UNCHANGED <<probeVars, credVars, restVars>>

\* inferHistoryScopes: the four inferences and the deferred Unlock; then
\* logDetectedScopes (reads only) and the return of DetectScopes
InferReturn ==
    /\ dpc = "inferLocked"
    /\ detected' = InferHistory(detected)
    /\ mutexWriter' = "none"
    /\ dpc' = "idle"
    /\ UNCHANGED <<mutexReaders, wg, rounds, cancelled, cancelledAll, ppc,
                   available, rpc>>
    /\ UNCHANGED <<probeVars, credVars, restVars>>

\* HasScope: sd.detectedMutex.RLock()
HasScopeRLock ==
    /\ rpc = "idle"
    /\ CanRLock
    /\ mutexReaders' = mutexReaders + 1
    /\ rpc' = "rlocked"
    /\ UNCHANGED <<detected, mutexWriter, dpc, wg, rounds, cancelled,
                   cancelledAll, ppc, available>>
    /\ UNCHANGED <<probeVars, credVars, restVars>>

\* HasScope: return sd.detected[scope] and the deferred RUnlock
HasScopeReturn ==
    /\ rpc = "rlocked"
    /\ mutexReaders' = mutexReaders - 1
    /\ rpc' = "idle"
    /\ UNCHANGED <<detected, mutexWriter, dpc, wg, rounds, cancelled,
                   cancelledAll, ppc, available>>
    /\ UNCHANGED <<probeVars, credVars, restVars>>

-----------------------------------------------------------------------------
(* The probe's classifier on its own: one client call, one verdict *)

\* tokens an error text is made of
ErrTokens == {"missing_scope", "not_allowed", "access_denied", "ratelimited",
              "context canceled", "connection refused", "slack"}

RECURSIVE TextsUpTo(_)
TextsUpTo(n) ==
    IF n = 0
    THEN {<< >>}
    ELSE LET shorter == TextsUpTo(n - 1)
         IN shorter \cup {Append(t, k) : t \in shorter, k \in ErrTokens}

\* every error value the client call of a probe is given to return
AllErrs == {NilErr} \cup {ErrorOf(t) : t \in TextsUpTo(MaxErrLen) \ {<< >>}}

NoVerdict == [done |-> FALSE, scope |-> "", available |-> FALSE]

ProbeIdle == perr = NilErr /\ pres = NoVerdict

\* the test function of scope p runs: its client call returns err and the
\* verdict is taken from it
ClientCall(p) ==
    /\ ~pres.done
    /\ \E err \in AllErrs : perr' = err
    /\ pres' = [done |-> TRUE, scope |-> p, available |-> testFunc(perr')]
    /\ UNCHANGED <<detVars, credVars, restVars>>

\* the verdict is handed to setScope, the next probe can run
ProbeReset ==
    /\ pres.done
    /\ perr' = NilErr
    /\ pres' = NoVerdict
    /\ UNCHANGED <<detVars, credVars, restVars>>

ProbeNext == (\E p \in Probed : ClientCall(p)) \/ ProbeReset

-----------------------------------------------------------------------------
(* Resolution of the credential mode *)

XOXP == "SLACK_MCP_XOXP_TOKEN"
XOXB == "SLACK_MCP_XOXB_TOKEN"
XOXC == "SLACK_MCP_XOXC_TOKEN"
XOXD == "SLACK_MCP_XOXD_TOKEN"

CredNames == {XOXP, XOXB, XOXC, XOXD}

\* a value as configured: empty, or the secret
CredValues == {"", "secret"}

\* the value presented under a name, "" when the name is not presented
Lookup(src, name) ==
    IF \E i \in 1..Len(src) : src[i].name = name
    THEN LET i == CHOOSE j \in 1..Len(src) : src[j].name = name
         IN src[i].value
    ELSE ""

Selected(kind) == [status |-> "ok", kind |-> kind, error |-> ""]
Failed(error) == [status |-> "error", kind |-> "", error |-> error]
Unresolved == [status |-> "none", kind |-> "", error |-> ""]

\* a resolution that looks at the bot token before the user token
ResolveBotFirst(src) ==
    IF Lookup(src, XOXB) # "" THEN Selected("bot")
    ELSE IF Lookup(src, XOXP) # "" THEN Selected("user")
    ELSE IF Lookup(src, XOXC) # "" /\ Lookup(src, XOXD) # ""
         THEN Selected("session-pair")
    ELSE IF Lookup(src, XOXC) # "" \/ Lookup(src, XOXD) # ""
         THEN Failed("IncompletePair")
    ELSE Failed("NoCredential")

\* a resolution with one failure for "no pair" and "half a pair"
ResolveOneFailure(src) ==
    IF Lookup(src, XOXP) # "" THEN Selected("user")
    ELSE IF Lookup(src, XOXB) # "" THEN Selected("bot")
    ELSE IF Lookup(src, XOXC) # "" /\ Lookup(src, XOXD) # ""
         THEN Selected("session-pair")
    ELSE Failed("NoCredential")

\* Resolve(sources) -> Credential | Error
Resolve(src) ==
    IF Lookup(src, XOXP) # "" THEN Selected("user")
    ELSE IF Lookup(src, XOXB) # "" THEN Selected("bot")
    ELSE IF Lookup(src, XOXC) # "" /\ Lookup(src, XOXD) # ""
         THEN Selected("session-pair")
    ELSE IF Lookup(src, XOXC) # "" \/ Lookup(src, XOXD) # ""
         THEN Failed("IncompletePair")
    ELSE Failed("NoCredential")

\* every presentation: some of the names, each once, in any order
Presentations ==
    {s \in UNION {[1..n -> [name : CredNames, value : CredValues]] :
                      n \in 0..Cardinality(CredNames)} :
        \A i, j \in 1..Len(s) : s[i].name = s[j].name => i = j}

CredIdle == csrc = << >> /\ cres = Unresolved

\* the operator's configuration is read
Configure ==
    /\ cres = Unresolved
    /\ csrc = << >>
    /\ \E s \in Presentations \ {<< >>} : csrc' = s
    /\ UNCHANGED cres
    /\ UNCHANGED <<detVars, probeVars, restVars>>

\* startup resolves the credential once
ResolveCredential ==
    /\ cres = Unresolved
    /\ cres' = Resolve(csrc)
    /\ UNCHANGED csrc
    /\ UNCHANGED <<detVars, probeVars, restVars>>

CredNext == Configure \/ ResolveCredential

-----------------------------------------------------------------------------
(* The directory: the remote listing, the published snapshot, the refresh *)

\* channels a remote listing holds at most
MaxChannels == 3
\* entries the remote service returns in one page
PageSize == 1
\* page-fetch sequences started in one run
MaxRefreshes == 2
\* concurrent calls of the handler
MaxCallers == 2

Min(a, b) == IF a < b THEN a ELSE b

Range(s) == {s[i] : i \in DOMAIN s}

\* a channel of the directory: its ID and the reference users name it by
\* ("#general", "@alice": the prefix is the first element of the reference)
DirectoryEntry(id, prefix, name) == [ID |-> <<id>>, Name |-> <<prefix, name>>]

Workspace == << DirectoryEntry("C1", "#", "general"),
                DirectoryEntry("C2", "#", "random"),
                DirectoryEntry("D1", "@", "alice"),
                DirectoryEntry("C3", "#", "dev") >>

\* what the remote service lists when the workspace has n channels
ListingOf(n) == SubSeq(Workspace, 1, n)

ListingSizes == 1..Min(MaxChannels, Len(Workspace))

Listings == {ListingOf(n) : n \in ListingSizes}

\* channelsMaps.Channels: ID -> channel
ChannelsOf(entries) ==
    [id \in {e.ID : e \in Range(entries)} |->
        CHOOSE e \in Range(entries) : e.ID = id]

\* channelsMaps.ChannelsInv: reference -> ID
InvOf(entries) ==
    [name \in {e.Name : e \in Range(entries)} |->
        (CHOOSE e \in Range(entries) : e.Name = name).ID]

SnapshotOf(entries) ==
    [entries |-> entries,
     Channels |-> ChannelsOf(entries),
     ChannelsInv |-> InvOf(entries)]

NoRefresh ==
    [inFlight |-> FALSE, listing |-> << >>, fetched |-> 0, exhausted |-> FALSE,
     acc |-> << >>, requests |-> 0]

DirInit ==
    /\ remote = Min(MaxChannels, Len(Workspace))
    /\ snapshot = SnapshotOf(<< >>)
    /\ refresh = NoRefresh
    /\ fetchSeqs = 0

\* the remote workspace gains or loses channels between refreshes
RemoteChange ==
    /\ ~refresh.inFlight
    /\ \E n \in ListingSizes \ {remote} : remote' = n
    /\ UNCHANGED <<snapshot, refresh, fetchSeqs>>
    /\ UNCHANGED <<detVars, probeVars, credVars, hVars, gateVars>>

\* Refresh(entityType): a request joins the refresh in flight, or starts one
Refresh ==
    /\ IF refresh.inFlight
       THEN /\ refresh.requests < MaxCallers
            /\ refresh' = [refresh EXCEPT !.requests = @ + 1]
            /\ UNCHANGED fetchSeqs
       ELSE /\ fetchSeqs < MaxRefreshes
            /\ refresh' = [NoRefresh EXCEPT !.inFlight = TRUE,
                                            !.listing = ListingOf(remote),
                                            !.requests = 1]
            /\ fetchSeqs' = fetchSeqs + 1
    /\ UNCHANGED <<remote, snapshot>>
    /\ UNCHANGED <<detVars, probeVars, credVars, hVars, gateVars>>

\* the page the service returns for a cursor, and the cursor it returns with
\* it (0: none, the listing is exhausted)
PageAt(listing, from) ==
    SubSeq(listing, from + 1, Min(from + PageSize, Len(listing)))

CursorAfter(listing, from) ==
    IF from + PageSize >= Len(listing) THEN 0 ELSE from + PageSize

\* one page is fetched and accumulated off to the side
FetchPage ==
    /\ refresh.inFlight
    /\ ~refresh.exhausted
    /\ refresh' = [refresh EXCEPT
            !.acc = @ \o PageAt(refresh.listing, refresh.fetched),
            !.fetched = CursorAfter(refresh.listing, refresh.fetched),
            !.exhausted = CursorAfter(refresh.listing, refresh.fetched) = 0]
    /\ UNCHANGED <<remote, snapshot, fetchSeqs>>
    /\ UNCHANGED <<detVars, probeVars, credVars, hVars, gateVars>>

PublishReadyAnyPage(r) == r.inFlight /\ r.acc # << >>

\* the accumulated sequence may replace the published snapshot
PublishReady(r) == r.inFlight /\ r.exhausted

\* the new snapshot replaces the published one in one step
Publish ==
    /\ PublishReady(refresh)
    /\ snapshot' = SnapshotOf(refresh.acc)
    /\ refresh' = NoRefresh
    /\ UNCHANGED <<remote, fetchSeqs>>
    /\ UNCHANGED <<detVars, probeVars, credVars, hVars, gateVars>>

-----------------------------------------------------------------------------
(* MessagesWithAttachmentsHandler: requests, history pages, attachment rows *)

\* messages in one history page
MaxMessages == 2

Callers == 1..MaxCallers

\* strings.HasPrefix on a reference
HasPrefix(s, prefix) == Len(s) > 0 /\ Head(s) = prefix

NeedsResolveAlways(channelID) == TRUE

\* the handler resolves a channel_id that names a channel or a user
NeedsResolve(channelID) == HasPrefix(channelID, "#") \/ HasPrefix(channelID, "@")

\* request.GetInt("limit", 100), brought into 1..100
LimitOf(limit) == IF limit < 1 \/ limit > 100 THEN 100 ELSE limit

\* reading a Go map: the zero value for a key that is absent
MapGet(m, k, zero) == IF k \in DOMAIN m THEN m[k] ELSE zero

ZeroChannel == [ID |-> << >>, Name |-> << >>]

ResolveChannelUnchecked(channelsMaps, channelID) ==
    [ok |-> TRUE,
     ID |-> MapGet(channelsMaps.Channels,
                   MapGet(channelsMaps.ChannelsInv, channelID, << >>),
                   ZeroChannel).ID]

\* chn, ok := channelsMaps.ChannelsInv[channelID]; channelsMaps.Channels[chn].ID
ResolveChannel(channelsMaps, channelID) ==
    IF channelID \in DOMAIN channelsMaps.ChannelsInv
    THEN [ok |-> TRUE,
          ID |-> MapGet(channelsMaps.Channels,
                        channelsMaps.ChannelsInv[channelID],
                        ZeroChannel).ID]
    ELSE [ok |-> FALSE, ID |-> << >>]

\* the users the provider knows (ProvideUsersMap)
UsersMap == [Users |-> [id \in {"U1"} |-> [Name |-> "alice"]]]

\* files of the remote service
SlackFile(n, user) ==
    [ID |-> <<"F", n>>, Name |-> <<"name", n>>, Title |-> <<"title", n>>,
     Mimetype |-> "application/pdf", Filetype |-> "pdf", Size |-> 1024 * n,
     URLPrivate |-> <<"url_private", n>>,
     URLPrivateDownload |-> <<"url_private_download", n>>,
     Permalink |-> <<"permalink", n>>, User |-> user]

FileLists == { << >>, << SlackFile(1, "U1") >>,
               << SlackFile(1, "U1"), SlackFile(2, "U2") >> }

Timestamps == {"1700000000.000100", "not-a-timestamp"}

\* text.TimestampToIsoRFC3339: the RFC 3339 form of a Slack timestamp, or an
\* error for a text that is none
TimestampToIsoRFC3339(ts) ==
    IF ts = "not-a-timestamp"
    THEN [err |-> TRUE, value |-> << >>]
    ELSE [err |-> FALSE, value |-> <<"rfc3339", ts>>]

SlackMessages == {[Timestamp |-> t, Files |-> fs] : t \in Timestamps, fs \in FileLists}

RECURSIVE MessageListsUpTo(_)
MessageListsUpTo(n) ==
    IF n = 0
    THEN {<< >>}
    ELSE LET shorter == MessageListsUpTo(n - 1)
         IN shorter \cup {Append(l, m) : l \in shorter, m \in SlackMessages}

\* a page of conversations.history: the cursor is returned with has_more
HistoryPage(messages, hasMore) ==
    [err |-> FALSE, Messages |-> messages, HasMore |-> hasMore,
     NextCursor |-> IF hasMore THEN "bmV4dA==" ELSE ""]

HistoryFailed == [err |-> TRUE, Messages |-> << >>, HasMore |-> FALSE, NextCursor |-> ""]

\* every answer GetConversationHistoryContext gives
AllHistoryResults ==
    {HistoryFailed} \cup
    {HistoryPage(l, more) : l \in MessageListsUpTo(MaxMessages), more \in BOOLEAN}

\* the answers used where the rows do not matter
FewHistoryResults ==
    {HistoryFailed, HistoryPage(<< [Timestamp |-> "1700000000.000100",
                                    Files |-> << SlackFile(1, "U1") >>] >>, FALSE)}

\* the Attachment built for one file of one message
AttachmentOf(msg, file, channelID, usersMap) ==
    LET userName == IF file.User \in DOMAIN usersMap.Users
                    THEN usersMap.Users[file.User].Name
                    ELSE file.User
        iso == TimestampToIsoRFC3339(msg.Timestamp)
        timestamp == IF iso.err THEN <<msg.Timestamp>> ELSE iso.value
    IN [ID |-> file.ID, Name |-> file.Name, Title |-> file.Title,
        MimeType |-> file.Mimetype, FileType |-> file.Filetype,
        Size |-> file.Size, URL |-> file.URLPrivate,
        URLPrivate |-> file.URLPrivateDownload, Permalink |-> file.Permalink,
        MessageID |-> <<msg.Timestamp>>, ChannelID |-> channelID,
        UserID |-> file.User, UserName |-> userName,
        Timestamp |-> timestamp, Cursor |-> ""]

\* the two loops: messages in order, the files of each in order
RECURSIVE BuildAttachments(_, _, _)
BuildAttachments(messages, channelID, usersMap) ==
    IF messages = << >>
    THEN << >>
    ELSE LET msg == Head(messages)
         IN [i \in 1..Len(msg.Files) |->
                AttachmentOf(msg, msg.Files[i], channelID, usersMap)]
            \o BuildAttachments(Tail(messages), channelID, usersMap)

CursorRowFirst(attachments) == 1

\* the row the cursor goes to: attachments[len(attachments)-1]
CursorRow(attachments) == Len(attachments)

\* Set cursor on last item if there are more results
SetCursor(attachments, history) ==
    IF Len(attachments) > 0 /\ history.HasMore
    THEN [attachments EXCEPT ![CursorRow(attachments)].Cursor = history.NextCursor]
    ELSE attachments

\* the csv tags of Attachment, in field order
CSVHeader == <<"id", "name", "title", "mimeType", "fileType", "size", "url",
               "urlPrivate", "permalink", "messageID", "channelID", "userID",
               "userName", "timestamp", "cursor">>

\* gocsv.MarshalBytes: the header line and one record per attachment
MarshalCSV(attachments) ==
    [header |-> CSVHeader,
     records |-> [i \in 1..Len(attachments) |->
        LET a == attachments[i]
        IN <<a.ID, a.Name, a.Title, a.MimeType, a.FileType, ToString(a.Size),
             a.URL, a.URLPrivate, a.Permalink, a.MessageID, a.ChannelID,
             a.UserID, a.UserName, a.Timestamp, a.Cursor>>]]

\* a request of the tool: whether its caller is authenticated, and its
\* channel_id, limit and cursor arguments
Request(authenticated, channelID, limit, cursor) ==
    [authenticated |-> authenticated, channel_id |-> channelID,
     limit |-> limit, cursor |-> cursor]

NoRequest == Request(FALSE, << >>, 0, "")

ChannelArguments ==
    { << >>, <<"C1">>, <<"C9">>, <<"#", "general">>, <<"#", "random">>,
      <<"@", "alice">>, <<"#", "unknown-channel">> }

\* requests that differ in the channel they name
ChannelRequests ==
    {Request(TRUE, ch, 50, "") : ch \in ChannelArguments}
    \cup {Request(FALSE, <<"C1">>, 50, "")}

\* requests for one channel that differ in limit and cursor
PageRequests ==
    {Request(TRUE, <<"C1">>, l, cur) : l \in {0, 50, 101}, cur \in {"", "bmV4dA=="}}

NoResult == [done |-> FALSE, err |-> "", csv |-> [header |-> << >>, records |-> << >>]]

Failure(err) == [NoResult EXCEPT !.done = TRUE, !.err = err]

\* refreshes started and refreshes completed so far
RefreshCount ==
    [started |-> fetchSeqs,
     completed |-> IF refresh.inFlight THEN fetchSeqs - 1 ELSE fetchSeqs]

\* history of a call: the refreshes counted when it began and when it read
\* the snapshot, whether a refresh was in flight at that read, and the
\* snapshot read
NothingSeen ==
    [read |-> FALSE, during |-> FALSE, maps |-> SnapshotOf(<< >>),
     atCall |-> [started |-> 0, completed |-> 0],
     atRead |-> [started |-> 0, completed |-> 0]]

HandlerInit ==
    /\ hpc = [c \in Callers |-> "idle"]
    /\ hreq = [c \in Callers |-> NoRequest]
    /\ hchannelID = [c \in Callers |-> << >>]
    /\ hlog = [c \in Callers |-> << >>]
    /\ hseen = [c \in Callers |-> NothingSeen]
    /\ hout = [c \in Callers |-> NoResult]

\* the handler is called: authentication, then its arguments
HandlerCall(c, requests) ==
    /\ hpc[c] = "idle"
    /\ \E req \in requests :
        /\ hreq' = [hreq EXCEPT ![c] = req]
        /\ IF ~req.authenticated
           THEN /\ hout' = [hout EXCEPT ![c] = Failure("authentication failed")]
                /\ hpc' = [hpc EXCEPT ![c] = "done"]
                /\ UNCHANGED hchannelID
           ELSE IF req.channel_id = << >>
           THEN /\ hout' = [hout EXCEPT ![c] = Failure("channel_id is required")]
                /\ hpc' = [hpc EXCEPT ![c] = "done"]
                /\ UNCHANGED hchannelID
           ELSE /\ hchannelID' = [hchannelID EXCEPT ![c] = req.channel_id]
                /\ hpc' = [hpc EXCEPT ![c] = "resolve"]
                /\ UNCHANGED hout
    /\ hseen' = [hseen EXCEPT ![c] = [NothingSeen EXCEPT !.atCall = RefreshCount]]
    /\ UNCHANGED hlog
    /\ UNCHANGED <<detVars, probeVars, credVars, dirVars, gateVars>>

\* Resolve channel name to ID if needed
HandlerResolve(c) ==
    /\ hpc[c] = "resolve"
    /\ IF NeedsResolve(hchannelID[c])
       THEN LET channelsMaps == snapshot
                r == ResolveChannel(channelsMaps, hchannelID[c])
            IN /\ hlog' = [hlog EXCEPT ![c] =
                        Append(@, [call |-> "ProvideChannelsMaps"])]
               /\ hseen' = [hseen EXCEPT ![c] =
                        [@ EXCEPT !.read = TRUE, !.during = refresh.inFlight,
                                  !.maps = channelsMaps,
                                  !.atRead = RefreshCount]]
               /\ IF ~r.ok
                  THEN /\ hout' = [hout EXCEPT ![c] = Failure("channel not found")]
                       /\ hpc' = [hpc EXCEPT ![c] = "done"]
                       /\ UNCHANGED hchannelID
                  ELSE /\ hchannelID' = [hchannelID EXCEPT ![c] = r.ID]
                       /\ hpc' = [hpc EXCEPT ![c] = "history"]
                       /\ UNCHANGED hout
       ELSE /\ hpc' = [hpc EXCEPT ![c] = "history"]
            /\ UNCHANGED <<hchannelID, hlog, hseen, hout>>
    /\ UNCHANGED hreq
    /\ UNCHANGED <<detVars, probeVars, credVars, dirVars, gateVars>>

\* slack.GetConversationHistoryParameters of the call
HistoryParams(channelID, req) ==
    [ChannelID |-> channelID, Limit |-> LimitOf(req.limit),
     Cursor |-> req.cursor, Inclusive |-> FALSE]

\* the history call and, from its page, the rows, the cursor and the CSV
HandlerHistory(c, results) ==
    /\ hpc[c] = "history"
    /\ \E history \in results :
        /\ IF history.err
           THEN /\ hlog' = [hlog EXCEPT ![c] = Append(@,
                        [call |-> "GetConversationHistoryContext",
                         params |-> HistoryParams(hchannelID[c], hreq[c]),
                         history |-> history])]
                /\ hout' = [hout EXCEPT ![c] = Failure("history failed")]
           ELSE LET attachments ==
                        SetCursor(BuildAttachments(history.Messages,
                                                   hchannelID[c], UsersMap),
                                  history)
                IN /\ hlog' = [hlog EXCEPT ![c] = Append(Append(@,
                            [call |-> "GetConversationHistoryContext",
                             params |-> HistoryParams(hchannelID[c], hreq[c]),
                             history |-> history]),
                            [call |-> "ProvideUsersMap"])]
                   /\ hout' = [hout EXCEPT ![c] =
                            [done |-> TRUE, err |-> "",
                             csv |-> MarshalCSV(attachments)]]
    /\ hpc' = [hpc EXCEPT ![c] = "done"]
    /\ UNCHANGED <<hreq, hchannelID, hseen>>
    /\ UNCHANGED <<detVars, probeVars, credVars, dirVars, gateVars>>

\* the result has been handed to the caller, who may call again
HandlerReturn(c) ==
    /\ hpc[c] = "done"
    /\ hpc' = [hpc EXCEPT ![c] = "idle"]
    /\ hreq' = [hreq EXCEPT ![c] = NoRequest]
    /\ hchannelID' = [hchannelID EXCEPT ![c] = << >>]
    /\ hlog' = [hlog EXCEPT ![c] = << >>]
    /\ hseen' = [hseen EXCEPT ![c] = NothingSeen]
    /\ hout' = [hout EXCEPT ![c] = NoResult]
    /\ UNCHANGED <<detVars, probeVars, credVars, dirVars, gateVars>>

-----------------------------------------------------------------------------
(* Gating of the advertised operations *)

CredentialKinds == {"user", "bot", "session-pair"}

\* one row of the static table: an operation, the permissions it requires
\* and the credential kinds it is available under
Operation(op, requires, kinds) == [op |-> op, requires |-> requires, kinds |-> kinds]

OperationTable ==
    { Operation("channels_list", {ScopeChannelsRead}, CredentialKinds),
      Operation("conversations_history", {ScopeChannelsHistory}, CredentialKinds),
      Operation("conversations_replies", {ScopeChannelsRead, ScopeChannelsHistory},
                CredentialKinds),
      Operation("users", {ScopeUsersRead}, CredentialKinds),
      Operation("conversations_add_message", {ScopeChatWrite}, CredentialKinds),
      Operation("conversations_search_messages", {ScopeSearchRead},
                {"user", "session-pair"}) }

OperationIDs == {row.op : row \in OperationTable}

RowOf(op) == CHOOSE row \in OperationTable : row.op = op

EnabledOperationsByPermission(capabilitySet, credentialKind) ==
    {row.op : row \in {r \in OperationTable :
        \A p \in r.requires : capabilitySet[p]}}

\* EnabledOperations(capabilitySet, credentialKind) -> set of OperationID
EnabledOperations(capabilitySet, credentialKind) ==
    {row.op : row \in {r \in OperationTable :
        /\ \A p \in r.requires : capabilitySet[p]
        /\ credentialKind \in r.kinds}}

NoGateInput ==
    [given |-> FALSE, capabilitySet |-> << >>, credentialKind |-> ""]

GateIdle ==
    /\ gin = NoGateInput
    /\ gout = {}

\* the operations are computed for a capability set and a credential kind
Gate ==
    /\ ~gin.given
    /\ \E capabilitySet \in [Scope -> BOOLEAN], kind \in CredentialKinds :
        /\ gin' = [given |-> TRUE, capabilitySet |-> capabilitySet,
                   credentialKind |-> kind]
        /\ gout' = EnabledOperations(capabilitySet, kind)
    /\ UNCHANGED <<detVars, probeVars, credVars, dirVars, hVars>>

\* the capability set changes: the operations are to be computed again
GateReset ==
    /\ gin.given
    /\ gin' = NoGateInput
    /\ gout' = {}
    /\ UNCHANGED <<detVars, probeVars, credVars, dirVars, hVars>>

GateNext == Gate \/ GateReset

-----------------------------------------------------------------------------
(* Specifications *)

Init == DetInit /\ ProbeIdle /\ CredIdle /\ DirInit /\ HandlerInit /\ GateIdle

\* the detector at startup: one DetectScopes call with its six probes, the
\* caller's cancellation of the context, and a querying goroutine
Next ==
    \/ DetectScopes(StartupRounds)
    \/ Cancel
    \/ \E p \in Probed : ProbeTest(p)
    \/ \E p \in Probed : SetScopeLock(p)
    \/ \E p \in Probed : SetScopeWrite(p)
    \/ Join
    \/ InferLock
    \/ InferReturn
    \/ HasScopeRLock
    \/ HasScopeReturn

Spec == Init /\ [][Next]_vars

\* a step of the running DetectScopes call or of one of its goroutines
RoundStep ==
    \/ \E p \in Probed : ProbeTest(p)
    \/ \E p \in Probed : SetScopeLock(p)
    \/ \E p \in Probed : SetScopeWrite(p)
    \/ Join
    \/ InferLock
    \/ InferReturn

\* the scheduling the Go runtime gives: a client call returns, a runnable
\* goroutine runs, a reader gives its read lock back, and a Lock() that can
\* return again and again does return (sync.RWMutex holds new readers back
\* while a writer waits)
Fairness == SF_vars(RoundStep) /\ WF_vars(HasScopeReturn)

FairSpec == Init /\ [][Next]_vars /\ Fairness

\* a detector whose DetectScopes is called again after it has returned, with
\* a querying goroutine
RedetectNext ==
    \/ DetectScopes(MaxRounds)
    \/ \E p \in Probed : ProbeTest(p)
    \/ \E p \in Probed : SetScopeLock(p)
    \/ \E p \in Probed : SetScopeWrite(p)
    \/ Join
    \/ InferLock
    \/ InferReturn
    \/ HasScopeRLock
    \/ HasScopeReturn

SpecRedetect == Init /\ [][RedetectNext]_vars

\* the classifier of a probe over every error text
SpecProbe == Init /\ [][ProbeNext]_vars

\* the resolution of the credential over every presentation
SpecCred == Init /\ [][CredNext]_vars

\* the directory with its refreshes, and the callers of the handler
DirectoryNext ==
    \/ RemoteChange
    \/ Refresh
    \/ FetchPage
    \/ Publish
    \/ \E c \in Callers : HandlerCall(c, ChannelRequests)
    \/ \E c \in Callers : HandlerResolve(c)
    \/ \E c \in Callers : HandlerHistory(c, FewHistoryResults)
    \/ \E c \in Callers : HandlerReturn(c)

SpecDirectory == Init /\ [][DirectoryNext]_vars

\* one caller of the handler and every history page
RowsNext ==
    \/ HandlerCall(1, PageRequests)
    \/ HandlerResolve(1)
    \/ HandlerHistory(1, AllHistoryResults)
    \/ HandlerReturn(1)

SpecRows == Init /\ [][RowsNext]_vars

\* the gate alone
SpecGate == Init /\ [][GateNext]_vars


-----------------------------------------------------------------------------------------------------------------------------------------------------
(* Claims about the ScopeDetector (Spec, FairSpec, SpecRedetect) *)

\* a DetectScopes call has returned and none is running
AtReturn == dpc = "idle" /\ rounds >= 1

\* <<read scope, history scope>>
HistoryPairs == {<<ScopeChannelsRead, ScopeChannelsHistory>>,
                 <<ScopeGroupsRead, ScopeGroupsHistory>>,
                 <<ScopeIMRead, ScopeIMHistory>>,
                 <<ScopeMPIMRead, ScopeMPIMHistory>>}

\* C1: after every completed DetectScopes call, the first or a later one,
\* HasScope(history scope) is true if and only if HasScope(read scope) is,
\* for each of the four pairs.
C1_HistoryIffRead ==
    AtReturn => \A pr \in HistoryPairs : HasScope(pr[2]) <=> HasScope(pr[1])

\* <<channel type, read scope>> in the order of the result
ChannelTypeOrder == << <<"public_channel", ScopeChannelsRead>>,
                       <<"private_channel", ScopeGroupsRead>>,
                       <<"im", ScopeIMRead>>,
                       <<"mpim", ScopeMPIMRead>> >>

\* the types whose read probe said "available", in the fixed order
ReportedTypes ==
    LET Reported(e) == available[e[2]]
        kept == SelectSeq(ChannelTypeOrder, Reported)
    IN [i \in 1..Len(kept) |-> kept[i][1]]

\* C2: after detection AvailableChannelTypes is exactly the types whose read
\* probe reported available, each once, in the order public_channel,
\* private_channel, im, mpim; users:read and search:read play no part.
C2_ChannelTypes == AtReturn => AvailableChannelTypes = ReportedTypes

\* public channels and DMs only, with users:read denied and search:read not
C2_Witness ==
    /\ AtReturn
    /\ AvailableChannelTypes = <<"public_channel", "im">>
    /\ ~available[ScopeUsersRead]
    /\ available[ScopeSearchRead]
    /\ ~available[ScopeGroupsRead]
    /\ ~available[ScopeMPIMRead]

\* the probes of the scenario: channels:read and groups:read succeed, the
\* four others are denied
ScenarioOutcome ==
    available = [p \in Probed |->
                    p \in {ScopeChannelsRead, ScopeGroupsRead}]

ScenarioSet == {ScopeChannelsRead, ScopeChannelsHistory,
                ScopeGroupsRead, ScopeGroupsHistory}

\* when DetectScopes returns, each probed scope holds its own probe's verdict
EachProbeRecorded ==
    \A p \in Probed : p \in DOMAIN detected /\ detected[p] = available[p]

\* C3: when DetectScopes returns, under every interleaving, the recorded value
\* of each probed scope is its own probe's verdict; and with channels:read and
\* groups:read available and the four others denied, channels and groups read
\* and history are true and every im, mpim, users and search scope is false.
C3_IsolatedOutcomes ==
    AtReturn =>
        /\ EachProbeRecorded
        /\ ScenarioOutcome => \A s \in Scope : HasScope(s) <=> s \in ScenarioSet

\* the part of C3 about the probed scopes alone
C3_ProbedPart == AtReturn => EachProbeRecorded

\* a probe's goroutine has taken its verdict and not yet stored it
InSetScope(p) == ppc[p] \in {"setScope", "locked"}

\* the steps of C5: a probe whose call ends under a cancelled context takes
\* the verdict v, and a verdict is not changed on its way into the map
CancelledVerdict(v) ==
    \A p \in Probed :
        /\ (cancelled /\ ppc[p] = "test" /\ ppc'[p] = "setScope")
               => available'[p] = v
        /\ InSetScope(p) => available'[p] = available[p]

\* once a probe's goroutine is done, the map holds its verdict, and
\* DetectScopes returns only with the six goroutines done
VerdictsRecorded ==
    /\ \A p \in Probed :
           ppc[p] = "done" => (p \in DOMAIN detected /\ detected[p] = available[p])
    /\ AtReturn => \A p \in Probed : ppc[p] = "done"

\* C5 as stated: a probe that ends because the context was cancelled has its
\* scope recorded as unavailable, and the map holds the six probed scopes
\* when DetectScopes returns.
C5_Original == [][CancelledVerdict(FALSE)]_vars /\ []VerdictsRecorded

\* C5 as amended: a probe that ends because the context was cancelled has its
\* scope recorded as available (the cancellation is an error that is no
\* permission denial), and the map holds the six probed scopes when
\* DetectScopes returns.
C5_Amended == [][CancelledVerdict(TRUE)]_vars /\ []VerdictsRecorded

\* the context was cancelled with all six probes outstanding, DetectScopes
\* has returned and the six scopes are recorded as available
C5_Witness ==
    /\ AtReturn
    /\ cancelledAll
    /\ \A p \in Probed : p \in DOMAIN detected /\ detected[p]

\* the map is one a finished round leaves, or the empty map of construction
CompleteSet(d) ==
    \/ d = << >>
    \/ /\ Probed \subseteq DOMAIN d
       /\ \A pr \in HistoryPairs : HasScopeIn(d, pr[1]) => HasScopeIn(d, pr[2])

Finalized == rounds >= 1 /\ dpc = "idle"

SameAnswers == \A s \in Scope : HasScopeIn(detected', s) = HasScopeIn(detected, s)

\* C7 as stated: Detecting is entered once, Finalized is terminal, and once
\* Finalized no step, a further DetectScopes call included, changes what
\* HasScope returns.
C7_Original ==
    [][(rounds > 1 \/ Finalized) => (rounds' = rounds /\ SameAnswers)]_vars

\* the order of a DetectScopes call
Lifecycle == {<<"idle", "wait">>, <<"wait", "infer">>,
              <<"infer", "inferLocked">>, <<"inferLocked", "idle">>}

\* C7 as amended: a call goes Idle -> Detecting -> Finalized; a further
\* DetectScopes call enters Detecting again and can change what HasScope
\* returns; while no call is running, no step changes it.
C7_Amended ==
    [][/\ dpc' # dpc => <<dpc, dpc'>> \in Lifecycle
       /\ (dpc = "idle" /\ dpc' = "idle") => SameAnswers]_vars

\* a query runs on a detector Finalized for the second time
C7_Witness ==
    /\ rounds = 2
    /\ dpc = "idle"
    /\ rpc = "rlocked"
    /\ HasScope(ScopeChannelsRead)

\* C8: whatever the probes return, DetectScopes returns, and leaves a map
\* with a boolean for each of the six probed scopes (all false included); it
\* has no error to return.
C8_Returns ==
    (dpc # "idle") ~>
        (AtReturn /\ \A p \in Probed :
                         p \in DOMAIN detected /\ detected[p] \in BOOLEAN)

\* DetectScopes has returned with the six probed scopes all false
C8_Witness ==
    /\ AtReturn
    /\ \A p \in Probed : p \in DOMAIN detected /\ ~detected[p]
    /\ ~HasAnyReadScope
    /\ ~HasAnyHistoryScope

-----
(* Claims about the probe's classifier (SpecProbe) *)

DenialMarkers == {"missing_scope", "not_allowed", "access_denied"}

\* the error is one recognised as a permission denial
RecognisedDenial(err) ==
    /\ ~err.isNil
    /\ \E i \in 1..Len(err.text) : err.text[i] \in DenialMarkers

\* C4: a probe's verdict is one of two values, and it is "unavailable"
\* exactly when its client call returned an error whose text holds
\* missing_scope, not_allowed or access_denied; success and every other
\* error give "available".
C4_TwoOutcomes ==
    pres.done =>
        /\ pres.available \in BOOLEAN
        /\ (pres.available = FALSE) <=> RecognisedDenial(perr)

\* a probe whose call failed with an error that is no denial said "available"
C4_Witness ==
    /\ pres.done
    /\ pres.available
    /\ ~perr.isNil
    /\ Len(perr.text) = 2

-----------------------------------------------------------------------------
(* Claims about credential resolution (SpecCred) *)

\* a value is presented under the name and is not empty
Present(name) ==
    \E i \in 1..Len(csrc) : csrc[i].name = name /\ csrc[i].value # ""

\* q presents what src presents, in some order
Reordering(q, src) ==
    /\ Len(q) = Len(src)
    /\ {q[i] : i \in 1..Len(q)} = {src[i] : i \in 1..Len(src)}

\* C9: resolution selects one mode by the priority user token > bot token >
\* session pair, whatever else is presented, and the result is the same for
\* every order of presentation.
C9_Priority ==
    cres.status # "none" =>
        /\ Present(XOXP) => cres = Selected("user")
        /\ (~Present(XOXP) /\ Present(XOXB)) => cres = Selected("bot")
        /\ (~Present(XOXP) /\ ~Present(XOXB) /\ Present(XOXC) /\ Present(XOXD))
               => cres = Selected("session-pair")
        /\ cres = Selected("session-pair")
               => (~Present(XOXP) /\ ~Present(XOXB))
        /\ cres.status = "ok" => cres.kind \in {"user", "bot", "session-pair"}
        /\ \A q \in Presentations : Reordering(q, csrc) => Resolve(q) = cres

\* all four values are presented, the user token last, and the user token won
C9_Witness ==
    /\ cres = Selected("user")
    /\ Len(csrc) = 4
    /\ csrc[4].name = XOXP
    /\ Present(XOXB) /\ Present(XOXC) /\ Present(XOXD)

HalfPair == Present(XOXC) # Present(XOXD)

NothingPresent ==
    ~Present(XOXP) /\ ~Present(XOXB) /\ ~Present(XOXC) /\ ~Present(XOXD)

\* C10 as stated: half a session pair always fails with IncompletePair, and
\* NoCredential is the result exactly when nothing is presented.
C10_Original ==
    cres.status # "none" =>
        /\ HalfPair => cres = Failed("IncompletePair")
        /\ cres = Failed("NoCredential") <=> NothingPresent

\* C10 as amended: with no user token and no bot token, half a session pair
\* fails with IncompletePair (never NoCredential, never a credential);
\* NoCredential is the result exactly when nothing is presented; a session
\* pair is selected only with both secrets.
C10_Amended ==
    cres.status # "none" =>
        /\ (~Present(XOXP) /\ ~Present(XOXB) /\ HalfPair)
               => cres = Failed("IncompletePair")
        /\ cres = Failed("IncompletePair") => HalfPair
        /\ cres = Failed("NoCredential") <=> NothingPresent
        /\ cres = Selected("session-pair") => (Present(XOXC) /\ Present(XOXD))

\* only the xoxd secret is presented, and resolution failed with IncompletePair
C10_Witness ==
    /\ cres = Failed("IncompletePair")
    /\ Present(XOXD)
    /\ ~Present(XOXC)

-----------------------------------------------------------------------------
(* Claims about the directory and the handler's resolution (SpecDirectory) *)

\* positions in the log of caller c where the handler called the history API
HistoryCalls(c) ==
    {i \in DOMAIN hlog[c] : hlog[c][i].call = "GetConversationHistoryContext"}

\* caller c named a channel by a prefixed reference that the inverse map of
\* the snapshot it was handed does not hold
Missed(c) ==
    /\ NeedsResolve(hreq[c].channel_id)
    /\ hseen[c].read
    /\ hreq[c].channel_id \notin DOMAIN hseen[c].maps.ChannelsInv

\* C11: a prefixed reference ('#name', '@name') with no entry in the inverse
\* map of the snapshot ends the call with the not-found error and no rows,
\* and no history call is made for it; no history call at all is made with
\* an empty channel ID or with a reference that is still prefixed.
C11_NotFound ==
    \A c \in Callers :
        /\ Missed(c) =>
            /\ hpc[c] = "done"
            /\ hout[c].done
            /\ hout[c].err = "channel not found"
            /\ hout[c].csv.records = << >>
            /\ HistoryCalls(c) = {}
        /\ \A i \in HistoryCalls(c) :
            /\ hlog[c][i].params.ChannelID # << >>
            /\ ~NeedsResolve(hlog[c][i].params.ChannelID)

\* an unknown '#' reference was looked up in a snapshot a completed refresh
\* published, and the call ended with the not-found error
C11_Witness ==
    \E c \in Callers :
        /\ Missed(c)
        /\ hreq[c].channel_id = <<"#", "unknown-channel">>
        /\ hseen[c].maps.entries \in Listings
        /\ hout[c].err = "channel not found"

\* C12: when a call reports not-found for a reference, one refresh was
\* completed between the call and the snapshot read that its answer rests on
\* (the refresh the miss triggered or joined), and the calls together started
\* no more than that one page-fetch sequence.
C12_OneRefresh ==
    \A c \in Callers :
        (Missed(c) /\ hout[c].err = "channel not found") =>
            /\ hseen[c].atRead.completed >= hseen[c].atCall.completed + 1
            /\ hseen[c].atRead.started <= hseen[c].atCall.started + 1

\* a snapshot holds a whole listing (or nothing yet), and its two maps are
\* those of its entries
CompleteSnapshot(s) ==
    /\ s.entries = << >> \/ s.entries \in Listings
    /\ DOMAIN s.ChannelsInv = {e.Name : e \in Range(s.entries)}
    /\ DOMAIN s.Channels = {e.ID : e \in Range(s.entries)}
    /\ \A e \in Range(s.entries) :
        /\ s.ChannelsInv[e.Name] = e.ID
        /\ s.Channels[e.ID] = e

\* C13: the published snapshot changes only when the page sequence of the
\* refresh is exhausted, and then to the whole listing that was fetched; the
\* published snapshot and every snapshot a caller was handed is complete,
\* with the inverse map of its entries, never some of the pages.
C13_WholeSnapshots ==
    /\ [][snapshot' # snapshot =>
            (refresh.exhausted /\ snapshot'.entries = refresh.listing)]_vars
    /\ [](/\ CompleteSnapshot(snapshot)
          /\ \A c \in Callers : hseen[c].read => CompleteSnapshot(hseen[c].maps))

\* a caller read the previous snapshot while a refresh of another listing
\* had fetched some of its pages
C13_Witness ==
    /\ refresh.inFlight
    /\ ~refresh.exhausted
    /\ refresh.acc # << >>
    /\ \E c \in Callers :
        /\ hseen[c].read
        /\ hseen[c].during
        /\ hseen[c].maps = snapshot
        /\ snapshot.entries \in Listings \ {refresh.listing}

\* caller c named a channel by a bare ID that the published snapshot holds
BareAndPresent(c) ==
    /\ hpc[c] = "resolve"
    /\ ~HasPrefix(hchannelID[c], "#")
    /\ ~HasPrefix(hchannelID[c], "@")
    /\ hchannelID[c] \in DOMAIN snapshot.Channels

\* C15: the resolution step of a bare identifier the snapshot holds leaves
\* the identifier as it was given, reads no directory map and changes
\* nothing of the directory or its refresh; the history call that follows
\* is made for that identifier.
C15_BareUnchanged ==
    /\ [][\A c \in Callers :
            (BareAndPresent(c) /\ hpc'[c] # "resolve") =>
                /\ hpc'[c] = "history"
                /\ hchannelID'[c] = hreq[c].channel_id
                /\ hlog'[c] = hlog[c]
                /\ ~hseen'[c].read
                /\ UNCHANGED dirVars]_vars
    /\ [](\A c \in Callers : \A i \in HistoryCalls(c) :
            ~NeedsResolve(hreq[c].channel_id) =>
                hlog[c][i].params.ChannelID = hreq[c].channel_id)

\* the history call was made for the bare ID of a channel the snapshot holds
C15_Witness ==
    \E c \in Callers :
        /\ hreq[c].channel_id = <<"C1">>
        /\ <<"C1">> \in DOMAIN snapshot.Channels
        /\ ~hseen[c].read
        /\ HistoryCalls(c) # {}
        /\ hout[c].done /\ hout[c].err = ""

-----------------------------------------------------------------------------
(* Claims about the gate (SpecGate) *)

\* C14: an operation is advertised only if every permission its row of the
\* table requires is available in the capability set and its row admits the
\* credential kind; under a bot credential message search is not advertised,
\* whatever search:read is.
C14_OnlyPermitted ==
    /\ \A op \in gout :
        /\ op \in OperationIDs
        /\ \A p \in RowOf(op).requires : gin.capabilitySet[p]
        /\ gin.credentialKind \in RowOf(op).kinds
    /\ gin.credentialKind = "bot" => "conversations_search_messages" \notin gout

\* a bot credential with search:read available: search is withheld while an
\* operation the bot is admitted to is advertised
C14_Witness ==
    /\ gin.given
    /\ gin.credentialKind = "bot"
    /\ gin.capabilitySet[ScopeSearchRead]
    /\ gin.capabilitySet[ScopeUsersRead]
    /\ "users" \in gout
    /\ "conversations_search_messages" \notin gout

-----------------------------------------------------------------------------
(* Further claims about the ScopeDetector (Spec, SpecRedetect) *)

\* C16: in a round at most one goroutine is inside setScope and it is the
\* holder of the write lock; the verdict of every goroutine that has left
\* setScope is in the map under its own scope; the inference step runs only
\* when all six goroutines have recorded theirs.
C16_ExclusiveWrites ==
    /\ Cardinality({p \in Probed : ppc[p] = "locked"}) <= 1
    /\ \A p \in Probed : ppc[p] = "locked" => mutexWriter = p
    /\ \A p \in Probed :
        ppc[p] = "done" => (p \in DOMAIN detected /\ detected[p] = available[p])
    /\ dpc \in {"infer", "inferLocked"} =>
        \A p \in Probed : ppc[p] = "done"

\* one goroutine is inside setScope while the other five wait for the lock
C16_Witness ==
    \E p \in Probed :
        /\ ppc[p] = "locked"
        /\ \A q \in Probed \ {p} : ppc[q] = "setScope"

\* C17: in every state, before, during and after any round, HasScope is
\* false for im:write, mpim:write and chat:write.
C17_NoWriteScopes ==
    /\ ~HasScope(ScopeIMWrite)
    /\ ~HasScope(ScopeMPIMWrite)
    /\ ~HasScope(ScopeChatWrite)

\* a second round has returned with all six probed scopes available
C17_Witness ==
    /\ rounds = 2
    /\ AtReturn
    /\ \A p \in Probed : HasScope(p)
    /\ ~HasScope(ScopeIMWrite) /\ ~HasScope(ScopeMPIMWrite) /\ ~HasScope(ScopeChatWrite)

-----------------------------------------------------------------------------
(* Claims about the handler's rows (SpecRows) *)

RECURSIVE FilesIn(_)
FilesIn(messages) ==
    IF messages = << >>
    THEN 0
    ELSE Len(Head(messages).Files) + FilesIn(Tail(messages))

\* the column of the cursor in a record of the CSV
CursorColumn == Len(CSVHeader)

\* the history page the call of caller c was answered with
PageOf(c) == hlog[c][CHOOSE i \in HistoryCalls(c) : TRUE].history

\* C18: the output has one row per file of the page; a row holds the page's
\* continuation cursor if and only if the page has more results and the row
\* is the last one, every other row has an empty cursor; so a cursor is in
\* the output iff the page has more results and at least one row was made,
\* and a page with more results but no file gives an output with no cursor.
C18_CursorOnLastRow ==
    \A c \in Callers :
        (hout[c].done /\ hout[c].err = "") =>
            LET page == PageOf(c)
                rows == hout[c].csv.records
            IN /\ Len(rows) = FilesIn(page.Messages)
               /\ \A i \in DOMAIN rows :
                    rows[i][CursorColumn] =
                        IF page.HasMore /\ i = Len(rows) THEN page.NextCursor ELSE ""
               /\ (\E i \in DOMAIN rows : rows[i][CursorColumn] # "")
                    <=> (page.HasMore /\ FilesIn(page.Messages) > 0)

\* a page with more results gave three rows, of which only the last has the
\* cursor
C18_Witness ==
    \E c \in Callers :
        /\ hout[c].done /\ hout[c].err = ""
        /\ PageOf(c).HasMore
        /\ Len(hout[c].csv.records) = 3
        /\ hout[c].csv.records[3][CursorColumn] = PageOf(c).NextCursor
        /\ hout[c].csv.records[1][CursorColumn] = ""

====
